---- MODULE Spec2Model ----
(***************************************************************************)
(* A model of posts/blog_utils.py: a library of stateless renderers, each  *)
(* mapping its arguments to one HTML fragment.                             *)
(*                                                                         *)
(* Representation.                                                         *)
(*  - A Python str is a TLA+ string; templates are built with \o.  A str   *)
(*    whose characters the code inspects (tab names: lower(), replace())   *)
(*    is a sequence of one-character strings, flattened with StrOf.        *)
(*  - Optional[T]: None is <<>>, a value v is <<v>>.                       *)
(*  - An argument that may hold a number or text is tagged: Num(n), Txt(s).*)
(*    (a record with both payload fields, only the tagged one meaningful). *)
(*  - A fragment is a record with one field per hole of the f-string       *)
(*    template; a class attribute is the sequence of the pieces that the   *)
(*    template separates by single spaces (a piece may be empty).          *)
(*  - A call ends in Ok(fragment) or Raise(exception name).                *)
(***************************************************************************)
EXTENDS Integers, Sequences, FiniteSets, TLC

VARIABLES call, out, page

vars == <<call, out, page>>

-----------------------------------------------------------------------------
(* Python values *)

None == <<>>

Some(v) == <<v>>

\* bool(x) of an Optional[str]: None and "" are falsy
TruthyStr(o) == o # None /\ o[1] # ""

\* bool(x) of an Optional[int]: None and 0 are falsy
TruthyInt(o) == o # None /\ o[1] # 0

Num(n) == [t |-> "num", n |-> n, s |-> ""]

Txt(s) == [t |-> "str", n |-> 0, s |-> s]

Ok(html) == [kind |-> "ok", html |-> html]

Raise(e) == [kind |-> "raise", exc |-> e]

Digit(d) == CASE d = 0 -> "0" [] d = 1 -> "1" [] d = 2 -> "2" [] d = 3 -> "3"
              [] d = 4 -> "4" [] d = 5 -> "5" [] d = 6 -> "6" [] d = 7 -> "7"
              [] d = 8 -> "8" [] d = 9 -> "9"

RECURSIVE NatStr(_)
NatStr(n) == IF n < 10 THEN Digit(n) ELSE NatStr(n \div 10) \o Digit(n % 10)

\* str(n) / f"{n}" of an int
PyStr(n) == IF n < 0 THEN "-" \o NatStr(-n) ELSE NatStr(n)

\* f"{x}" of a tagged value: the digits of a number, the text itself
Fmt(x) == IF x.t = "num" THEN PyStr(x.n) ELSE x.s

\* a // b as it would be if the quotient were rounded up
PyCeilDiv(a, b) == IF b > 0 THEN -((-a) \div b) ELSE -(a \div (-b))

\* a // b on ints (floor division, b # 0)
PyFloorDiv(a, b) == IF b > 0 THEN a \div b ELSE (-a) \div (-b)

RECURSIVE Join(_, _)
\* sep.join(parts)
Join(parts, sep) ==
    IF parts = <<>> THEN ""
    ELSE IF Len(parts) = 1 THEN parts[1]
    ELSE parts[1] \o sep \o Join(Tail(parts), sep)

\* the str made of a sequence of characters
StrOf(chars) == Join(chars, "")

\* str.lower() on one character of the modelled alphabet
LowerChar(c) == CASE c = "A" -> "a" [] c = "B" -> "b" [] c = "T" -> "t"
                  [] OTHER -> c

\* s.lower()
StrLower(chars) == [i \in 1..Len(chars) |-> LowerChar(chars[i])]

\* s.replace(old, new) for one-character old and new
StrReplace(chars, old, new) ==
    [i \in 1..Len(chars) |-> IF chars[i] = old THEN new ELSE chars[i]]

\* str.title() on the modelled variant tags
StrTitle(s) == CASE s = "note" -> "Note" [] s = "tip" -> "Tip"
                 [] s = "warning" -> "Warning" [] s = "caution" -> "Caution"
                 [] s = "important" -> "Important" [] s = "danger" -> "Danger"
                 [] s = "NOTE" -> "Note" [] s = "" -> ""

\* the class list of a class attribute: its non-empty pieces
ClassList(pieces) == {pieces[i] : i \in {j \in 1..Len(pieces) : pieces[j] # ""}}

-----------------------------------------------------------------------------
(* Input sets *)

Bools == {TRUE, FALSE}

Contents == {"body"}

OptTitles == {None, Some(""), Some("Title")}

CalloutTags == {"note", "tip", "warning", "caution", "important"}

CalloutTypes == CalloutTags \cup {"danger", "NOTE", ""}

AlertTags == {"info", "success", "warning", "danger", "primary", "secondary"}

AlertTypes == AlertTags \cup {"note", "INFO", ""}

ChangeTags == {"positive", "negative", "neutral"}

ChangeTypes == ChangeTags \cup {"up", "Positive", ""}

OptChanges == {None, Some(""), Some("+5.2%")}

\* the number of columns of the Bootstrap grid
GridColumns == 12

\* bounds of the enumerated inputs
MaxValue == 16

MaxRows == 3

MaxSections == 2

MaxImages == 2

MaxContainers == 2

\* every sequence over S of length at most n
SeqsUpTo(S, n) == UNION {[1..k -> S] : k \in 0..n}

OptStartTimes == {None, Some(0), Some(30)}

Heights == {Num(400), Num(300), Txt("400")}

Widths == {Num(6), Num(4), Txt("6"), Txt("wide")}

Values == {Num(v) : v \in (0..MaxValue) \cup {25, 50}} \cup {Txt("25")}

MaxValues == {Num(v) : v \in (0..MaxValue) \cup {100, 200}} \cup {Txt("100")}

OptLabels == {None, Some(""), Some("Done"), Some("7.0%")}

RowValues == {"x", "y"}

DataFrames == SeqsUpTo(RowValues, MaxRows)

OptMaxRows == {None} \cup {Some(n) : n \in -1..(MaxRows + 1)}

TabNames == {<<"A">>, <<"a">>, <<"b">>, <<"a", " ", "b">>, <<"a", "-", "b">>,
             <<"T", "a", "b", " ", "1">>}

ContainerIds == {"custom-tabs", "custom-tabs-a"}

\* the dicts with at most n entries
Dicts(n) == {d \in SeqsUpTo(TabNames \X Contents, n) :
                \A i, j \in 1..Len(d) : i # j => d[i][1] # d[j][1]}

Images == [src : {None, Some("a.png")}, alt : {None, Some("Alt")},
           caption : {None, Some(""), Some("Cap")}]

OptAuthors == {None, Some(""), Some("Ada")}

OptSources == {None, Some(""), Some("Notes")}

ColumnCounts == {Num(c) : c \in -1..(GridColumns + 1)} \cup {Txt("3")}

-----------------------------------------------------------------------------
(* Callouts and alerts *)

\* create_callout as it would be with a lookup table that falls back to note
create_callout_fallback(content, callout_type, title, collapsible, collapsed) ==
    LET tag == IF callout_type \in CalloutTags THEN callout_type ELSE "note"
    IN  Ok([class |-> <<"callout", "callout-style-default", "callout-" \o tag,
                        IF collapsible THEN "callout-collapse" ELSE "",
                        IF collapsed /\ collapsible THEN "collapsed" ELSE "">>,
            title |-> IF TruthyStr(title) THEN title[1] ELSE StrTitle(callout_type),
            body  |-> content])

create_callout(content, callout_type, title, collapsible, collapsed) ==
    LET display_title == IF TruthyStr(title) THEN title[1] ELSE StrTitle(callout_type)
        collapse_class == IF collapsible THEN "callout-collapse" ELSE ""
        collapse_state == IF collapsed /\ collapsible THEN "collapsed" ELSE ""
    IN  Ok([class |-> <<"callout", "callout-style-default",
                        "callout-" \o callout_type, collapse_class, collapse_state>>,
            title |-> display_title,
            body  |-> content])

alert_classes == [t \in AlertTags |-> "alert-" \o t]

\* create_alert_box as it would be with the class built from the tag, no table
create_alert_box_nodefault(content, alert_type, title, dismissible) ==
    Ok([class |-> <<"alert", "alert-" \o alert_type>>
                  \o (IF dismissible THEN <<"alert-dismissible">> ELSE <<>>),
        role  |-> "alert",
        body  |-> (IF TruthyStr(title)
                   THEN "<strong>" \o title[1] \o "</strong><br>" ELSE "") \o content,
        dismiss_button |-> ""])

create_alert_box(content, alert_type, title, dismissible) ==
    LET alert_class == IF alert_type \in DOMAIN alert_classes
                       THEN alert_classes[alert_type] ELSE "alert-info"
        title_html == IF TruthyStr(title)
                      THEN "<strong>" \o title[1] \o "</strong><br>" ELSE ""
        dismiss_class == IF dismissible THEN <<"alert-dismissible">> ELSE <<>>
        dismiss_button == IF dismissible
            THEN "<button type=\"button\" class=\"btn-close\" data-bs-dismiss=\"alert\" aria-label=\"Close\"></button>"
            ELSE ""
    IN  Ok([class |-> <<"alert", alert_class>> \o dismiss_class,
            role  |-> "alert",
            body  |-> title_html \o content,
            dismiss_button |-> dismiss_button])

-----------------------------------------------------------------------------
(* Iframes and embeds.  An aspect ratio is a float that is a whole number of *)
(* sixteenths (0.5625 = 9/16, 0.5 = 8/16), held as that number, so that      *)
(* aspect_ratio * 100 is exact and its repr has at most two decimals.        *)

DefaultAspect == 9

\* f"{aspect_ratio * 100}" : repr of the float sixteenths * 6.25
PercentRepr(sixteenths) ==
    LET h == sixteenths * 625
        frac == h % 100
    IN  NatStr(h \div 100) \o "." \o
        (IF frac % 10 = 0 THEN Digit(frac \div 10)
         ELSE Digit(frac \div 10) \o Digit(frac % 10))

create_responsive_iframe(src, aspect_ratio, max_width, border, allowfullscreen, loading) ==
    LET padding_bottom == PercentRepr(aspect_ratio) \o "%"
        allowfullscreen_attr == IF allowfullscreen THEN "allowfullscreen" ELSE ""
    IN  Ok([max_width |-> max_width,
            padding_bottom |-> padding_bottom,
            src |-> src,
            border |-> border,
            loading |-> loading,
            allowfullscreen_attr |-> allowfullscreen_attr])

\* the list params of embed_youtube
youtube_params(start_time, autoplay, controls) ==
    (IF TruthyInt(start_time) THEN <<"start=" \o PyStr(start_time[1])>> ELSE <<>>)
    \o (IF autoplay THEN <<"autoplay=1">> ELSE <<>>)
    \o (IF ~controls THEN <<"controls=0">> ELSE <<>>)

embed_youtube(video_id, width, aspect_ratio, start_time, autoplay, controls) ==
    LET params == youtube_params(start_time, autoplay, controls)
        param_string == IF params # <<>> THEN "&" \o Join(params, "&") ELSE ""
    IN  create_responsive_iframe(
            "https://www.youtube.com/embed/" \o video_id \o "?" \o param_string,
            aspect_ratio, width, "0", TRUE, "lazy")

embed_codepen(pen_id, user, height, theme) ==
    IF height.t # "num" THEN Raise("TypeError")
    ELSE create_responsive_iframe(
            "https://codepen.io/" \o user \o "/embed/" \o pen_id \o "?height="
                \o Fmt(height) \o "&theme-id=" \o theme \o "&default-tab=result",
            (height.n * 16) \div 800, "100%", "0", TRUE, "lazy")

embed_plotly_chart(chart_url, height, width) ==
    Ok([src |-> chart_url, width |-> width, height |-> Fmt(height),
        frameborder |-> "0"])

-----------------------------------------------------------------------------
(* Data display.  A DataFrame is the sequence of its rows. *)

Min(a, b) == IF a < b THEN a ELSE b

Max(a, b) == IF a > b THEN a ELSE b

\* pandas DataFrame.head(n): the first n rows; for n < 0 all but the last -n
df_head(df, n) ==
    IF n >= 0 THEN SubSeq(df, 1, Min(n, Len(df)))
    ELSE SubSeq(df, 1, Max(Len(df) + n, 0))

\* pandas DataFrame.to_html(classes=..., table_id=...): one <tr> per row, in order
to_html(df, classes, table_id) ==
    [class |-> <<"dataframe">> \o classes, id |-> table_id, rows |-> df]

create_styled_table(df, title, caption, max_rows, striped, hover, responsive) ==
    LET display_df == IF TruthyInt(max_rows) THEN df_head(df, max_rows[1]) ELSE df
        table_classes == <<"table">>
            \o (IF striped THEN <<"table-striped">> ELSE <<>>)
            \o (IF hover THEN <<"table-hover">> ELSE <<>>)
        title_html == IF TruthyStr(title) THEN "<h4>" \o title[1] \o "</h4>" ELSE ""
        caption_html == IF TruthyStr(caption)
                        THEN "<caption>" \o caption[1] \o "</caption>" ELSE ""
    IN  Ok([title_html |-> title_html,
            responsive |-> responsive,
            table |-> to_html(display_df, table_classes, "styled-table"),
            caption_html |-> caption_html])

-----------------------------------------------------------------------------
(* Interactive elements.  A dict is the sequence of its (key, value) pairs in *)
(* insertion order, the keys distinct; a key is a sequence of characters.     *)

\* tab_section as it would be with every tab marked active
tab_section_all_active(tab_id, i, tab_name, content) ==
    LET tab_id_clean == StrOf(StrReplace(StrLower(tab_name), " ", "-"))
    IN  [nav |-> [class |-> <<"nav-link", "active">>,
                  id |-> tab_id \o "-" \o tab_id_clean \o "-tab",
                  target |-> "#" \o tab_id \o "-" \o tab_id_clean,
                  text |-> StrOf(tab_name)],
         pane |-> [class |-> <<"tab-pane", "fade", "show", "active">>,
                   id |-> tab_id \o "-" \o tab_id_clean,
                   body |-> content]]

\* the nav button and the pane of the i-th tab (i counted from 1)
tab_section(tab_id, i, tab_name, content) ==
    LET active_class == IF i = 1 THEN "active" ELSE ""
        tab_id_clean == StrOf(StrReplace(StrLower(tab_name), " ", "-"))
    IN  [nav |-> [class |-> <<"nav-link", active_class>>,
                  id |-> tab_id \o "-" \o tab_id_clean \o "-tab",
                  target |-> "#" \o tab_id \o "-" \o tab_id_clean,
                  text |-> StrOf(tab_name)],
         pane |-> [class |-> <<"tab-pane", "fade">>
                        \o (IF i = 1 THEN <<"show", "active">> ELSE <<"">>),
                   id |-> tab_id \o "-" \o tab_id_clean,
                   body |-> content]]

create_tabs(tabs_content, tab_id) ==
    LET sec(i) == tab_section(tab_id, i, tabs_content[i][1], tabs_content[i][2])
    IN  Ok([kind |-> "tabs",
            id |-> tab_id,
            tab_nav |-> [i \in 1..Len(tabs_content) |-> sec(i).nav],
            content_id |-> tab_id \o "-content",
            tab_content |-> [i \in 1..Len(tabs_content) |-> sec(i).pane]])

\* accordion_section as it would be if every section always named the parent
accordion_section_shared(accordion_id, allow_multiple, i, title, content) ==
    LET section_id == accordion_id \o "-section-" \o PyStr(i - 1)
    IN  [heading_id |-> section_id \o "-heading",
         button_class |-> <<"accordion-button", IF i = 1 THEN "" ELSE "collapsed">>,
         target |-> "#" \o section_id,
         aria_expanded |-> IF i = 1 THEN "true" ELSE "false",
         title |-> StrOf(title),
         id |-> section_id,
         class |-> <<"accordion-collapse", "collapse", IF i = 1 THEN "show" ELSE "">>,
         parent |-> "#" \o accordion_id,
         body |-> content]

\* the i-th accordion item (i counted from 1; the code's index is i - 1)
accordion_section(accordion_id, allow_multiple, i, title, content) ==
    LET section_id == accordion_id \o "-section-" \o PyStr(i - 1)
        show_class == IF i = 1 THEN "show" ELSE ""
        collapsed_class == IF i = 1 THEN "" ELSE "collapsed"
    IN  [heading_id |-> section_id \o "-heading",
         button_class |-> <<"accordion-button", collapsed_class>>,
         target |-> "#" \o section_id,
         aria_expanded |-> IF i = 1 THEN "true" ELSE "false",
         title |-> StrOf(title),
         id |-> section_id,
         class |-> <<"accordion-collapse", "collapse", show_class>>,
         parent |-> "#" \o (IF ~allow_multiple THEN accordion_id ELSE ""),
         body |-> content]

create_accordion(accordion_items, accordion_id, allow_multiple) ==
    Ok([kind |-> "accordion",
        id |-> accordion_id,
        sections |-> [i \in 1..Len(accordion_items) |->
            accordion_section(accordion_id, allow_multiple, i,
                              accordion_items[i][1], accordion_items[i][2])]])

-----------------------------------------------------------------------------
(* Progress and metrics *)

change_colors == [t \in ChangeTags |->
    CASE t = "positive" -> "#28a745" [] t = "negative" -> "#dc3545"
      [] t = "neutral" -> "#6c757d"]

create_metric_card(title, value, subtitle, change, change_type, icon) ==
    LET change_color == IF change_type \in DOMAIN change_colors
                        THEN change_colors[change_type] ELSE "#6c757d"
        icon_html == IF TruthyStr(icon)
            THEN "<div style=\"font-size: 2em; margin-bottom: 10px;\">" \o icon[1] \o "</div>"
            ELSE ""
        subtitle_html == IF TruthyStr(subtitle)
            THEN "<div style=\"color: #6c757d; font-size: 0.9em;\">" \o subtitle[1] \o "</div>"
            ELSE ""
        change_html == IF TruthyStr(change)
            THEN "<div style=\"color: " \o change_color
                 \o "; font-weight: bold; margin-top: 5px;\">" \o change[1] \o "</div>"
            ELSE ""
    IN  Ok([icon_html |-> icon_html,
            title |-> title,
            value |-> Fmt(value),
            subtitle_html |-> subtitle_html,
            change_html |-> change_html])

\* Percentage as it would be without the factor 100
Percentage_ratio(value, max_value) == [num |-> value, den |-> max_value]

\* the float (value / max_value) * 100, held as the fraction num / den, den > 0
Percentage(value, max_value) == [num |-> value * 100, den |-> max_value]

\* f"{p:.1f}" for p >= 0: the multiple of 0.1 nearest to p; at a tie the
\* binary value of the float decides, and round_up says which way it fell
Fixed1(p, round_up) ==
    LET floor10 == (p.num * 10) \div p.den
        rest == (p.num * 10) % p.den
        tenths == IF 2 * rest > p.den \/ (2 * rest = p.den /\ round_up)
                  THEN floor10 + 1 ELSE floor10
    IN  NatStr(tenths \div 10) \o "." \o Digit(tenths % 10)

IsTie(p) == 2 * ((p.num * 10) % p.den) = p.den

\* create_progress_bar as it would be if the computed text always were the label
create_progress_bar_computed(value, max_value, label, color, striped, animated, round_up) ==
    IF value.t # "num" \/ max_value.t # "num" THEN Raise("TypeError")
    ELSE IF max_value.n = 0 THEN Raise("ZeroDivisionError")
    ELSE Ok([class |-> <<"progress-bar", "bg-" \o color>>,
             width |-> Percentage(value.n, max_value.n),
             valuenow |-> Fmt(value),
             valuemax |-> Fmt(max_value),
             label_text |-> Fixed1(Percentage(value.n, max_value.n), round_up) \o "%"])

\* create_progress_bar as it would be if a zero maximum gave an empty bar
create_progress_bar_guarded(value, max_value, label, color, striped, animated, round_up) ==
    IF value.t # "num" \/ max_value.t # "num" THEN Raise("TypeError")
    ELSE LET percentage == IF max_value.n = 0 THEN Percentage(0, 1)
                           ELSE Percentage(value.n, max_value.n)
         IN  Ok([class |-> <<"progress-bar", "bg-" \o color>>,
                 width |-> percentage,
                 valuenow |-> Fmt(value),
                 valuemax |-> Fmt(max_value),
                 label_text |-> IF TruthyStr(label) THEN label[1]
                                ELSE Fixed1(percentage, round_up) \o "%"])

create_progress_bar(value, max_value, label, color, striped, animated, round_up) ==
    IF value.t # "num" \/ max_value.t # "num" THEN Raise("TypeError")
    ELSE IF max_value.n = 0 THEN Raise("ZeroDivisionError")
    ELSE
    LET percentage == Percentage(value.n, max_value.n)
        progress_classes == <<"bg-" \o color>>
            \o (IF striped THEN <<"progress-bar-striped">> ELSE <<>>)
            \o (IF animated THEN <<"progress-bar-animated">> ELSE <<>>)
        label_text == IF TruthyStr(label) THEN label[1]
                      ELSE Fixed1(percentage, round_up) \o "%"
    IN  Ok([class |-> <<"progress-bar">> \o progress_classes,
            width |-> percentage,
            valuenow |-> Fmt(value),
            valuemax |-> Fmt(max_value),
            label_text |-> label_text])

-----------------------------------------------------------------------------
(* Layout *)

\* the character U+2014 of the cite text, written in ASCII
EmDash == "&#8212;"

\* create_quote_block as it would be if it tested its options with `is not None`
create_quote_block_notnone(quote, author, source) ==
    Ok([quote |-> quote,
        footer |-> (IF author # None THEN "<cite>" \o EmDash \o " " \o author[1] \o "</cite>" ELSE "")
                   \o (IF source # None THEN "<small>, " \o source[1] \o "</small>"
                       ELSE "")])

create_quote_block(quote, author, source) ==
    LET author_html == IF TruthyStr(author)
                       THEN "<cite>" \o EmDash \o " " \o author[1] \o "</cite>" ELSE ""
        source_html == IF TruthyStr(source)
                       THEN "<small>, " \o source[1] \o "</small>" ELSE ""
    IN  Ok([quote |-> quote,
            footer |-> author_html \o source_html])

create_code_block(code, language, title, line_numbers) ==
    LET title_html == IF TruthyStr(title)
            THEN "<div style=\"background: #f1f3f4; padding: 8px 12px; font-weight: bold; border-bottom: 1px solid #ddd;\">"
                 \o title[1] \o "</div>"
            ELSE ""
    IN  Ok([title_html |-> title_html,
            class |-> <<"language-" \o language>>,
            code |-> code])

\* create_two_column_layout as it would be if it checked its widths to be ints
create_two_column_layout_checked(left_content, right_content, left_width, right_width) ==
    IF left_width.t # "num" \/ right_width.t # "num" THEN Raise("TypeError")
    ELSE Ok([left_class |-> <<"col-md-" \o Fmt(left_width)>>,
             left_content |-> left_content,
             right_class |-> <<"col-md-" \o Fmt(right_width)>>,
             right_content |-> right_content])

create_two_column_layout(left_content, right_content, left_width, right_width) ==
    Ok([left_class |-> <<"col-md-" \o Fmt(left_width)>>,
        left_content |-> left_content,
        right_class |-> <<"col-md-" \o Fmt(right_width)>>,
        right_content |-> right_content])

\* dict.get(key, "") of an image mapping; an absent key is held as None
Get(img, key) == IF img[key] = None THEN "" ELSE img[key][1]

\* the markup of one gallery item
image_item(img, col_width) ==
    LET caption_html == IF TruthyStr(img["caption"])
            THEN "<div class=\"text-center mt-2\"><small>" \o Get(img, "caption")
                 \o "</small></div>"
            ELSE ""
    IN  [class |-> <<"col-md-" \o PyStr(col_width), "mb-4">>,
         src |-> img["src"][1],
         alt |-> Get(img, "alt"),
         caption_html |-> caption_html]

create_image_gallery(images, columns, title) ==
    IF columns.t # "num" THEN Raise("TypeError")
    ELSE IF columns.n = 0 THEN Raise("ZeroDivisionError")
    ELSE IF \E i \in 1..Len(images) : images[i]["src"] = None THEN Raise("KeyError")
    ELSE
    LET col_width == PyFloorDiv(GridColumns, columns.n)
        title_html == IF TruthyStr(title) THEN "<h4>" \o title[1] \o "</h4>" ELSE ""
    IN  Ok([title_html |-> title_html,
            image_items |-> [i \in 1..Len(images) |-> image_item(images[i], col_width)]])

-----------------------------------------------------------------------------
(* Quick helpers: each calls a renderer with the parameters it does not pass *)
(* at the defaults of the renderer's signature.                              *)

quick_note(content) == create_callout(content, "note", None, FALSE, FALSE)

\* quick_tip as it would be if it were a copy of quick_note
quick_tip_as_note(content) == create_callout(content, "note", None, FALSE, FALSE)

quick_tip(content) == create_callout(content, "tip", None, FALSE, FALSE)

quick_warning(content) == create_callout(content, "warning", None, FALSE, FALSE)

quick_success(content) == create_alert_box(content, "success", None, FALSE)

quick_info(content) == create_alert_box(content, "info", None, FALSE)

quick_youtube(video_id) ==
    embed_youtube(video_id, "100%", DefaultAspect, None, FALSE, TRUE)

quick_iframe(url, aspect_ratio) ==
    create_responsive_iframe(url, aspect_ratio, "100%", "0", TRUE, "lazy")

quick_quote(quote, author) == create_quote_block(quote, author, None)

-----------------------------------------------------------------------------
(* The calls: a state holds one call of the library, drawn by Init, and its  *)
(* outcome once the call has run.                                            *)

Pending == [kind |-> "pending"]

ReqCreateCallout ==
    \E content \in Contents, callout_type \in CalloutTypes, title \in OptTitles,
       collapsible \in Bools, collapsed \in Bools :
        call = [fn |-> "create_callout", content |-> content,
                callout_type |-> callout_type, title |-> title,
                collapsible |-> collapsible, collapsed |-> collapsed]

ReqCreateAlertBox ==
    \E content \in Contents, alert_type \in AlertTypes, title \in OptTitles,
       dismissible \in Bools :
        call = [fn |-> "create_alert_box", content |-> content,
                alert_type |-> alert_type, title |-> title,
                dismissible |-> dismissible]

ReqCreateMetricCard ==
    \E value \in {Num(42), Txt("1.2k")}, change \in OptChanges,
       change_type \in ChangeTypes :
        call = [fn |-> "create_metric_card", title |-> "Users", value |-> value,
                subtitle |-> None, change |-> change,
                change_type |-> change_type, icon |-> None]

ReqCreateResponsiveIframe ==
    \E aspect_ratio \in {DefaultAspect, 8, 12, 16}, allowfullscreen \in Bools :
        call = [fn |-> "create_responsive_iframe", src |-> "https://example.org",
                aspect_ratio |-> aspect_ratio, max_width |-> "100%", border |-> "0",
                allowfullscreen |-> allowfullscreen, loading |-> "lazy"]

ReqEmbedYoutube ==
    \E start_time \in OptStartTimes, autoplay \in Bools, controls \in Bools :
        call = [fn |-> "embed_youtube", video_id |-> "dQw4w9WgXcQ", width |-> "100%",
                aspect_ratio |-> DefaultAspect, start_time |-> start_time,
                autoplay |-> autoplay, controls |-> controls]

ReqEmbedCodepen ==
    \E height \in Heights :
        call = [fn |-> "embed_codepen", pen_id |-> "abc", user |-> "me",
                height |-> height, theme |-> "default"]

ReqEmbedPlotlyChart ==
    \E height \in Heights :
        call = [fn |-> "embed_plotly_chart", chart_url |-> "https://plot.ly/1",
                height |-> height, width |-> "100%"]

ReqCreateStyledTable ==
    \E df \in DataFrames, title \in OptTitles, max_rows \in OptMaxRows,
       striped \in Bools, responsive \in Bools :
        call = [fn |-> "create_styled_table", df |-> df, title |-> title,
                caption |-> None, max_rows |-> max_rows, striped |-> striped,
                hover |-> TRUE, responsive |-> responsive]

ReqCreateTabs ==
    \E tabs_content \in Dicts(MaxSections), tab_id \in ContainerIds :
        call = [fn |-> "create_tabs", tabs_content |-> tabs_content, tab_id |-> tab_id]

ReqCreateAccordion ==
    \E accordion_items \in Dicts(MaxSections), accordion_id \in ContainerIds,
       allow_multiple \in Bools :
        call = [fn |-> "create_accordion", accordion_items |-> accordion_items,
                accordion_id |-> accordion_id, allow_multiple |-> allow_multiple]

ReqCreateProgressBar ==
    \E value \in Values, max_value \in MaxValues, label \in OptLabels,
       striped \in Bools :
        call = [fn |-> "create_progress_bar", value |-> value, max_value |-> max_value,
                label |-> label, color |-> "primary", striped |-> striped,
                animated |-> FALSE]

ReqCreateTwoColumnLayout ==
    \E left_width \in Widths, right_width \in Widths :
        call = [fn |-> "create_two_column_layout", left_content |-> "left",
                right_content |-> "right", left_width |-> left_width,
                right_width |-> right_width]

ReqCreateImageGallery ==
    \E images \in SeqsUpTo(Images, MaxImages), columns \in ColumnCounts,
       title \in OptTitles :
        call = [fn |-> "create_image_gallery", images |-> images,
                columns |-> columns, title |-> title]

ReqCreateQuoteBlock ==
    \E author \in OptAuthors, source \in OptSources :
        call = [fn |-> "create_quote_block", quote |-> "Simplicity", author |-> author,
                source |-> source]

ReqCreateCodeBlock ==
    \E title \in OptTitles, language \in {"python", "r"}, line_numbers \in Bools :
        call = [fn |-> "create_code_block", code |-> "x = 1", language |-> language,
                title |-> title, line_numbers |-> line_numbers]

QuickCalloutNames == {"quick_note", "quick_tip", "quick_warning"}

QuickAlertNames == {"quick_success", "quick_info"}

ReqQuickCallout ==
    \E fn \in QuickCalloutNames, content \in Contents \cup {"", "<b>x</b>"} :
        call = [fn |-> fn, content |-> content]

ReqQuickAlert ==
    \E fn \in QuickAlertNames, content \in Contents \cup {"", "<b>x</b>"} :
        call = [fn |-> fn, content |-> content]

ReqQuickYoutube ==
    \E video_id \in {"dQw4w9WgXcQ", ""} :
        call = [fn |-> "quick_youtube", video_id |-> video_id]

ReqQuickIframe ==
    \E url \in {"https://example.org", ""}, aspect_ratio \in {DefaultAspect, 8, 12, 16} :
        call = [fn |-> "quick_iframe", url |-> url, aspect_ratio |-> aspect_ratio]

ReqQuickQuote ==
    \E quote \in {"Simplicity", ""}, author \in OptAuthors :
        call = [fn |-> "quick_quote", quote |-> quote, author |-> author]

Init ==
    /\ out = Pending
    /\ page = <<>>
    /\ \/ ReqCreateCallout
       \/ ReqCreateAlertBox
       \/ ReqCreateMetricCard
       \/ ReqCreateResponsiveIframe
       \/ ReqEmbedYoutube
       \/ ReqEmbedCodepen
       \/ ReqEmbedPlotlyChart
       \/ ReqCreateStyledTable
       \/ ReqCreateTabs
       \/ ReqCreateAccordion
       \/ ReqCreateProgressBar
       \/ ReqCreateTwoColumnLayout
       \/ ReqCreateImageGallery
       \/ ReqCreateQuoteBlock
       \/ ReqCreateCodeBlock
       \/ ReqQuickCallout
       \/ ReqQuickAlert
       \/ ReqQuickYoutube
       \/ ReqQuickIframe
       \/ ReqQuickQuote

CallCreateCallout ==
    /\ call.fn = "create_callout" /\ out = Pending
    /\ out' = create_callout(call.content, call.callout_type, call.title,
                             call.collapsible, call.collapsed)
    /\ UNCHANGED <<call, page>>

CallCreateAlertBox ==
    /\ call.fn = "create_alert_box" /\ out = Pending
    /\ out' = create_alert_box(call.content, call.alert_type, call.title,
                               call.dismissible)
    /\ UNCHANGED <<call, page>>

CallCreateMetricCard ==
    /\ call.fn = "create_metric_card" /\ out = Pending
    /\ out' = create_metric_card(call.title, call.value, call.subtitle, call.change,
                                 call.change_type, call.icon)
    /\ UNCHANGED <<call, page>>

CallCreateResponsiveIframe ==
    /\ call.fn = "create_responsive_iframe" /\ out = Pending
    /\ out' = create_responsive_iframe(call.src, call.aspect_ratio, call.max_width,
                                       call.border, call.allowfullscreen, call.loading)
    /\ UNCHANGED <<call, page>>

CallEmbedYoutube ==
    /\ call.fn = "embed_youtube" /\ out = Pending
    /\ out' = embed_youtube(call.video_id, call.width, call.aspect_ratio,
                            call.start_time, call.autoplay, call.controls)
    /\ UNCHANGED <<call, page>>

CallEmbedCodepen ==
    /\ call.fn = "embed_codepen" /\ out = Pending
    /\ out' = embed_codepen(call.pen_id, call.user, call.height, call.theme)
    /\ UNCHANGED <<call, page>>

CallEmbedPlotlyChart ==
    /\ call.fn = "embed_plotly_chart" /\ out = Pending
    /\ out' = embed_plotly_chart(call.chart_url, call.height, call.width)
    /\ UNCHANGED <<call, page>>

CallCreateStyledTable ==
    /\ call.fn = "create_styled_table" /\ out = Pending
    /\ out' = create_styled_table(call.df, call.title, call.caption, call.max_rows,
                                  call.striped, call.hover, call.responsive)
    /\ UNCHANGED <<call, page>>

CallCreateTabs ==
    /\ call.fn = "create_tabs" /\ out = Pending
    /\ out' = create_tabs(call.tabs_content, call.tab_id)
    /\ UNCHANGED <<call, page>>

CallCreateAccordion ==
    /\ call.fn = "create_accordion" /\ out = Pending
    /\ out' = create_accordion(call.accordion_items, call.accordion_id,
                               call.allow_multiple)
    /\ UNCHANGED <<call, page>>

\* the rounding of the label is a choice only when the percentage is at a tie
CallCreateProgressBar ==
    /\ call.fn = "create_progress_bar" /\ out = Pending
    /\ \E round_up \in Bools :
        /\ round_up =>
            /\ call.value.t = "num" /\ call.max_value.t = "num"
            /\ call.max_value.n # 0
            /\ IsTie(Percentage(call.value.n, call.max_value.n))
        /\ out' = create_progress_bar(call.value, call.max_value, call.label,
                                      call.color, call.striped, call.animated, round_up)
    /\ UNCHANGED <<call, page>>

CallCreateTwoColumnLayout ==
    /\ call.fn = "create_two_column_layout" /\ out = Pending
    /\ out' = create_two_column_layout(call.left_content, call.right_content,
                                       call.left_width, call.right_width)
    /\ UNCHANGED <<call, page>>

CallCreateImageGallery ==
    /\ call.fn = "create_image_gallery" /\ out = Pending
    /\ out' = create_image_gallery(call.images, call.columns, call.title)
    /\ UNCHANGED <<call, page>>

CallCreateQuoteBlock ==
    /\ call.fn = "create_quote_block" /\ out = Pending
    /\ out' = create_quote_block(call.quote, call.author, call.source)
    /\ UNCHANGED <<call, page>>

CallCreateCodeBlock ==
    /\ call.fn = "create_code_block" /\ out = Pending
    /\ out' = create_code_block(call.code, call.language, call.title, call.line_numbers)
    /\ UNCHANGED <<call, page>>

CallQuickNote ==
    /\ call.fn = "quick_note" /\ out = Pending
    /\ out' = quick_note(call.content)
    /\ UNCHANGED <<call, page>>

CallQuickTip ==
    /\ call.fn = "quick_tip" /\ out = Pending
    /\ out' = quick_tip(call.content)
    /\ UNCHANGED <<call, page>>

CallQuickWarning ==
    /\ call.fn = "quick_warning" /\ out = Pending
    /\ out' = quick_warning(call.content)
    /\ UNCHANGED <<call, page>>

CallQuickSuccess ==
    /\ call.fn = "quick_success" /\ out = Pending
    /\ out' = quick_success(call.content)
    /\ UNCHANGED <<call, page>>

CallQuickInfo ==
    /\ call.fn = "quick_info" /\ out = Pending
    /\ out' = quick_info(call.content)
    /\ UNCHANGED <<call, page>>

CallQuickYoutube ==
    /\ call.fn = "quick_youtube" /\ out = Pending
    /\ out' = quick_youtube(call.video_id)
    /\ UNCHANGED <<call, page>>

CallQuickIframe ==
    /\ call.fn = "quick_iframe" /\ out = Pending
    /\ out' = quick_iframe(call.url, call.aspect_ratio)
    /\ UNCHANGED <<call, page>>

CallQuickQuote ==
    /\ call.fn = "quick_quote" /\ out = Pending
    /\ out' = quick_quote(call.quote, call.author)
    /\ UNCHANGED <<call, page>>

Next ==
    \/ CallCreateCallout
    \/ CallCreateAlertBox
    \/ CallCreateMetricCard
    \/ CallCreateResponsiveIframe
    \/ CallEmbedYoutube
    \/ CallEmbedCodepen
    \/ CallEmbedPlotlyChart
    \/ CallCreateStyledTable
    \/ CallCreateTabs
    \/ CallCreateAccordion
    \/ CallCreateProgressBar
    \/ CallCreateTwoColumnLayout
    \/ CallCreateImageGallery
    \/ CallCreateQuoteBlock
    \/ CallCreateCodeBlock
    \/ CallQuickNote
    \/ CallQuickTip
    \/ CallQuickWarning
    \/ CallQuickSuccess
    \/ CallQuickInfo
    \/ CallQuickYoutube
    \/ CallQuickIframe
    \/ CallQuickQuote

Spec == Init /\ [][Next]_vars

-----------------------------------------------------------------------------
(* A page: the host displays the containers the calls return, one after the  *)
(* other, so that their elements are siblings in one document.               *)

InitPage ==
    /\ call = [fn |-> "none"]
    /\ out = Pending
    /\ page = <<>>

DisplayTabs ==
    \E tabs_content \in Dicts(MaxSections), tab_id \in ContainerIds :
        /\ Len(page) < MaxContainers
        /\ call' = [fn |-> "create_tabs", tabs_content |-> tabs_content,
                    tab_id |-> tab_id]
        /\ out' = create_tabs(tabs_content, tab_id)
        /\ page' = Append(page, out'.html)

DisplayAccordion ==
    \E accordion_items \in Dicts(MaxSections), accordion_id \in ContainerIds :
        /\ Len(page) < MaxContainers
        /\ call' = [fn |-> "create_accordion", accordion_items |-> accordion_items,
                    accordion_id |-> accordion_id, allow_multiple |-> FALSE]
        /\ out' = create_accordion(accordion_items, accordion_id, FALSE)
        /\ page' = Append(page, out'.html)

NextPage == DisplayTabs \/ DisplayAccordion

SpecPage == InitPage /\ [][NextPage]_vars

-----------------------------------------------------------------------------
(* Properties *)

Returned == out.kind = "ok"

\* C1 (as stated): create_callout with a callout_type outside the closed set
\* raises no error and its class list carries callout-note, not a class built
\* from the unrecognized tag.
C1_UnknownCalloutFallsBackToNote ==
    (call.fn = "create_callout" /\ out # Pending
        /\ call.callout_type \notin CalloutTags)
    => /\ Returned
       /\ "callout-note" \in ClassList(out.html.class)
       /\ ("callout-" \o call.callout_type) \notin ClassList(out.html.class)

\* C1 (amended): create_callout raises no error for any tag, and the variant
\* class of its class list is callout-<callout_type>, built from the tag as
\* passed, recognized or not; callout-note is carried only for the tag note.
C1_CalloutClassBuiltFromTag ==
    (call.fn = "create_callout" /\ out # Pending)
    => /\ Returned
       /\ out.html.class[3] = "callout-" \o call.callout_type
       /\ ("callout-note" \in ClassList(out.html.class)) <=> (call.callout_type = "note")

C1_Witness ==
    /\ call.fn = "create_callout" /\ call.callout_type = "danger"
    /\ Returned /\ "callout-danger" \in ClassList(out.html.class)

ExpectedAlertClass(t) ==
    CASE t = "info" -> "alert-info" [] t = "success" -> "alert-success"
      [] t = "warning" -> "alert-warning" [] t = "danger" -> "alert-danger"
      [] t = "primary" -> "alert-primary" [] t = "secondary" -> "alert-secondary"
      [] OTHER -> "alert-info"

ExpectedChangeColor(t) ==
    CASE t = "positive" -> "#28a745" [] t = "negative" -> "#dc3545"
      [] OTHER -> "#6c757d"

\* C2: the variant lookups are total with a fixed default: create_alert_box
\* carries alert-<t> for each of the six tags and alert-info for any other tag;
\* create_metric_card colours the change indicator by the three-way table and
\* with neutral's colour for any other tag; neither raises.
C2_VariantLookupsTotal ==
    /\ (call.fn = "create_alert_box" /\ out # Pending)
       => /\ Returned
          /\ out.html.class[2] = ExpectedAlertClass(call.alert_type)
          /\ ClassList(out.html.class)
                \subseteq {"alert", ExpectedAlertClass(call.alert_type), "alert-dismissible"}
    /\ (call.fn = "create_metric_card" /\ out # Pending)
       => /\ Returned
          /\ TruthyStr(call.change) =>
                out.html.change_html =
                    "<div style=\"color: " \o ExpectedChangeColor(call.change_type)
                    \o "; font-weight: bold; margin-top: 5px;\">" \o call.change[1]
                    \o "</div>"

C2_Witness ==
    /\ call.fn = "create_alert_box" /\ call.alert_type = "note"
    /\ Returned /\ "alert-info" \in ClassList(out.html.class)

\* C3: in embed_youtube the query part of the iframe src is exactly the
\* fragments of the present parameters joined by single '&', nothing before the
\* first or after the last; with no optional parameter the URL ends at the
\* video id, with no dangling '?' or '&'.
C3_YoutubeQueryWellFormed ==
    (call.fn = "embed_youtube" /\ out # Pending)
    => LET frags == (IF TruthyInt(call.start_time)
                     THEN <<"start=" \o PyStr(call.start_time[1])>> ELSE <<>>)
                    \o (IF call.autoplay THEN <<"autoplay=1">> ELSE <<>>)
                    \o (IF call.controls THEN <<>> ELSE <<"controls=0">>)
       IN  /\ Returned
           /\ out.html.src = "https://www.youtube.com/embed/" \o call.video_id
                \o (IF frags = <<>> THEN "" ELSE "?" \o Join(frags, "&"))

\* C4: create_tabs and create_accordion over a mapping with N >= 2 entries mark
\* exactly the first entry in iteration order active/expanded: in tabs only
\* entry 0 has 'active' on its button and 'show active' on its pane; in the
\* accordion only entry 0 has 'show' and aria-expanded="true", every other
\* entry has button class 'collapsed' and aria-expanded="false".
C4_OnlyFirstSectionActive ==
    /\ (call.fn = "create_tabs" /\ out # Pending /\ Len(call.tabs_content) >= 2)
       => /\ Returned
          /\ Len(out.html.tab_nav) = Len(call.tabs_content)
          /\ Len(out.html.tab_content) = Len(call.tabs_content)
          /\ \A i \in 1..Len(call.tabs_content) :
                /\ out.html.tab_nav[i].text = StrOf(call.tabs_content[i][1])
                /\ out.html.tab_content[i].body = call.tabs_content[i][2]
                /\ ("active" \in ClassList(out.html.tab_nav[i].class)) <=> (i = 1)
                /\ ("active" \in ClassList(out.html.tab_content[i].class)) <=> (i = 1)
                /\ ("show" \in ClassList(out.html.tab_content[i].class)) <=> (i = 1)
    /\ (call.fn = "create_accordion" /\ out # Pending /\ Len(call.accordion_items) >= 2)
       => /\ Returned
          /\ Len(out.html.sections) = Len(call.accordion_items)
          /\ \A i \in 1..Len(call.accordion_items) :
                LET sec == out.html.sections[i]
                IN  /\ sec.title = StrOf(call.accordion_items[i][1])
                    /\ sec.body = call.accordion_items[i][2]
                    /\ ("show" \in ClassList(sec.class)) <=> (i = 1)
                    /\ sec.aria_expanded = (IF i = 1 THEN "true" ELSE "false")
                    /\ ("collapsed" \in ClassList(sec.button_class)) <=> (i # 1)

C4_Witness ==
    /\ call.fn = "create_tabs" /\ Len(call.tabs_content) = 2 /\ Returned
    /\ "active" \in ClassList(out.html.tab_nav[1].class)
    /\ "active" \notin ClassList(out.html.tab_nav[2].class)

\* the id of the i-th section of a displayed container: a tab's pane, an
\* accordion item's collapse element
SectionId(container, i) ==
    IF container.kind = "tabs" THEN container.tab_content[i].id
    ELSE container.sections[i].id

SectionCount(container) ==
    IF container.kind = "tabs" THEN Len(container.tab_content)
    ELSE Len(container.sections)

\* C5: generated section identifiers never collide: two different sections get
\* different element ids, both within one container (distinct labels or
\* positions) and across two sibling containers with different container ids.
C5_SectionIdsNeverCollide ==
    \A c, d \in 1..Len(page) :
        \A i \in 1..SectionCount(page[c]), j \in 1..SectionCount(page[d]) :
            (/\ <<c, i>> # <<d, j>>
             /\ c # d => page[c].id # page[d].id)
            => SectionId(page[c], i) # SectionId(page[d], j)

\* C6: create_styled_table with a row limit max_rows = N >= 0 on a table of L
\* rows renders exactly the first min(N, L) rows in their original order; with
\* no limit it renders all L rows.
C6_RowLimitTruncates ==
    (call.fn = "create_styled_table" /\ out # Pending)
    => /\ Returned
       /\ call.max_rows = None => out.html.table.rows = call.df
       /\ (call.max_rows # None /\ call.max_rows[1] >= 0)
          => /\ Len(out.html.table.rows) = Min(call.max_rows[1], Len(call.df))
             /\ Len(out.html.table.rows) <= call.max_rows[1]
             /\ \A i \in 1..Len(out.html.table.rows) :
                    out.html.table.rows[i] = call.df[i]

\* text is the number num/den * 100 written with one decimal and a '%' sign:
\* digits, '.', one digit, '%', the value within 0.05 of the exact percentage
IsPercentText(text, num, den) ==
    \E tenths \in 0..((num * 1000) \div den + 1) :
        /\ text = NatStr(tenths \div 10) \o "." \o Digit(tenths % 10) \o "%"
        /\ 2 * (tenths * den - num * 1000) <= den
        /\ 2 * (num * 1000 - tenths * den) <= den

\* C7: create_progress_bar without a label, with value >= 0 and max_value > 0,
\* embeds as label text value/max_value*100 with exactly one decimal place and
\* '%'; (25, 100) and (50, 200) both give "25.0%".
C7_DefaultLabelOneDecimal ==
    (/\ call.fn = "create_progress_bar" /\ out # Pending
     /\ call.label = None
     /\ call.value.t = "num" /\ call.max_value.t = "num"
     /\ call.value.n >= 0 /\ call.max_value.n > 0)
    => /\ Returned
       /\ IsPercentText(out.html.label_text, call.value.n, call.max_value.n)
       /\ (<<call.value.n, call.max_value.n>> \in {<<25, 100>>, <<50, 200>>})
          => out.html.label_text = "25.0%"

C7_Witness ==
    /\ call.fn = "create_progress_bar" /\ call.label = None
    /\ call.value = Num(50) /\ call.max_value = Num(200)
    /\ Returned /\ out.html.label_text = "25.0%"

\* C8 (as stated): in create_progress_bar, for every label string the caller
\* passes, the label text inside the bar is exactly that string.
C8_AnyLabelOverrides ==
    (call.fn = "create_progress_bar" /\ out # Pending /\ Returned /\ call.label # None)
    => out.html.label_text = call.label[1]

\* C8 (amended): for every non-empty label string the caller passes, the label
\* text is exactly that string and the computed percentage is not used; an empty
\* label string counts as no label, and the computed percentage text is shown.
C8_NonEmptyLabelOverrides ==
    (call.fn = "create_progress_bar" /\ out # Pending /\ Returned /\ call.label # None)
    => /\ call.label[1] # "" => out.html.label_text = call.label[1]
       /\ (call.label[1] = "" /\ call.value.n >= 0 /\ call.max_value.n > 0)
          => IsPercentText(out.html.label_text, call.value.n, call.max_value.n)

C8_Witness ==
    /\ call.fn = "create_progress_bar" /\ call.label = Some("Done")
    /\ call.value = Num(1) /\ call.max_value = Num(4)
    /\ Returned /\ out.html.label_text = "Done"

\* the call's arguments have the declared types: a number wherever the
\* signature declares int or float
TypeCorrect ==
    /\ call.fn = "create_progress_bar" => call.value.t = "num" /\ call.max_value.t = "num"
    /\ call.fn = "create_image_gallery" => call.columns.t = "num"
    /\ call.fn = "embed_codepen" => call.height.t = "num"
    /\ call.fn = "embed_plotly_chart" => call.height.t = "num"
    /\ call.fn = "create_two_column_layout"
       => call.left_width.t = "num" /\ call.right_width.t = "num"

\* C9 (as stated): no renderer raises for type-correct input, including
\* create_progress_bar with max_value = 0, create_image_gallery with
\* columns = 0 and create_image_gallery with an image mapping without 'src'.
C9_NeverRaisesOnTypeCorrect ==
    (out # Pending /\ TypeCorrect) => Returned

ZeroMaximum == call.fn = "create_progress_bar" /\ call.max_value.n = 0

ZeroColumns == call.fn = "create_image_gallery" /\ call.columns.n = 0

MissingSrc ==
    /\ call.fn = "create_image_gallery"
    /\ \E i \in 1..Len(call.images) : call.images[i].src = None

\* C9 (amended): for type-correct input a renderer raises in exactly three
\* cases: create_progress_bar with max_value = 0 and create_image_gallery with
\* columns = 0 raise ZeroDivisionError, and create_image_gallery with non-zero
\* columns and an image mapping without 'src' raises KeyError; every other
\* type-correct call (image mappings without 'alt' or 'caption' included)
\* returns a fragment.
C9_RaisesOnlyOnZeroOrMissingSrc ==
    (out # Pending /\ TypeCorrect)
    => IF ZeroMaximum \/ ZeroColumns THEN out = Raise("ZeroDivisionError")
       ELSE IF MissingSrc THEN out = Raise("KeyError")
       ELSE Returned

C9_Witness ==
    /\ call.fn = "create_progress_bar"
    /\ call.value = Num(5) /\ call.max_value = Num(0)
    /\ out = Raise("ZeroDivisionError")

\* the call passes text for a parameter declared numeric
TextForNumber ==
    \/ call.fn = "create_progress_bar" /\ (call.value.t = "str" \/ call.max_value.t = "str")
    \/ call.fn = "create_image_gallery" /\ call.columns.t = "str"
    \/ call.fn = "embed_codepen" /\ call.height.t = "str"
    \/ call.fn = "embed_plotly_chart" /\ call.height.t = "str"
    \/ call.fn = "create_two_column_layout"
       /\ (call.left_width.t = "str" \/ call.right_width.t = "str")

\* C10 (as stated): passing text where a renderer parameter is declared numeric
\* yields a type error, never returned markup.
C10_TextForNumberRaises ==
    (out # Pending /\ TextForNumber) => out = Raise("TypeError")

\* C10 (amended): text passed for a number the renderer computes with
\* (create_progress_bar value/max_value, create_image_gallery columns,
\* embed_codepen height) raises TypeError; text passed for a number the renderer
\* only interpolates (create_two_column_layout left_width/right_width,
\* embed_plotly_chart height) raises nothing and is returned verbatim in the
\* markup.
C10_TextRaisesOnlyWhereComputed ==
    (out # Pending /\ TextForNumber)
    => /\ call.fn \in {"create_progress_bar", "create_image_gallery", "embed_codepen"}
          => out = Raise("TypeError")
       /\ call.fn = "embed_plotly_chart"
          => Returned /\ out.html.height = call.height.s
       /\ call.fn = "create_two_column_layout"
          => /\ Returned
             /\ call.left_width.t = "str"
                => out.html.left_class = <<"col-md-" \o call.left_width.s>>
             /\ call.right_width.t = "str"
                => out.html.right_class = <<"col-md-" \o call.right_width.s>>

C10_Witness ==
    /\ call.fn = "create_two_column_layout" /\ call.left_width = Txt("wide")
    /\ Returned /\ out.html.left_class = <<"col-md-wide">>

\* the class col-md-k with k = floor(GridColumns / columns), columns >= 1:
\* k is the number with k * columns <= GridColumns < (k + 1) * columns
IsFloorWidthClass(class, columns) ==
    \E k \in 0..GridColumns :
        /\ k * columns <= GridColumns /\ GridColumns < (k + 1) * columns
        /\ class = "col-md-" \o NatStr(k)

\* C11: create_image_gallery gives every item the same width class col-md-k
\* with k = floor(12 / columns) for every columns in 1..12 (columns=3 gives
\* col-md-4, columns=5 gives col-md-2), however many images are passed.
C11_GalleryItemWidth ==
    (/\ call.fn = "create_image_gallery" /\ out # Pending
     /\ call.columns.t = "num" /\ call.columns.n \in 1..12
     /\ ~MissingSrc)
    => /\ Returned
       /\ Len(out.html.image_items) = Len(call.images)
       /\ \A i \in 1..Len(call.images) :
            /\ IsFloorWidthClass(out.html.image_items[i].class[1], call.columns.n)
            /\ call.columns.n = 3 => out.html.image_items[i].class[1] = "col-md-4"
            /\ call.columns.n = 5 => out.html.image_items[i].class[1] = "col-md-2"
            /\ out.html.image_items[i].class[1] = out.html.image_items[1].class[1]

C11_Witness ==
    /\ call.fn = "create_image_gallery" /\ call.columns = Num(5)
    /\ Len(call.images) = 2 /\ Returned
    /\ out.html.image_items[1].class[1] = "col-md-2"
    /\ out.html.image_items[2].class[1] = "col-md-2"

\* the markup expected for an optional text: the element around a non-empty
\* text, nothing for an omitted or empty one
ElementIff(opt, open, close) ==
    IF opt # None /\ opt[1] # "" THEN open \o opt[1] \o close ELSE ""

C13_QuickHelpersAreWrappers ==
    out # Pending =>
    /\ call.fn = "quick_note"
       => out = create_callout(call.content, "note", None, FALSE, FALSE)
    /\ call.fn = "quick_tip"
       => out = create_callout(call.content, "tip", None, FALSE, FALSE)
    /\ call.fn = "quick_warning"
       => out = create_callout(call.content, "warning", None, FALSE, FALSE)
    /\ call.fn = "quick_success"
       => out = create_alert_box(call.content, "success", None, FALSE)
    /\ call.fn = "quick_info"
       => out = create_alert_box(call.content, "info", None, FALSE)
    /\ call.fn = "quick_youtube"
       => out = embed_youtube(call.video_id, "100%", 9, None, FALSE, TRUE)
    /\ call.fn = "quick_iframe"
       => out = create_responsive_iframe(call.url, call.aspect_ratio, "100%", "0",
                                         TRUE, "lazy")
    /\ call.fn = "quick_quote"
       => out = create_quote_block(call.quote, call.author, None)

C13_Witness ==
    /\ call.fn = "quick_tip" /\ call.content = "body" /\ Returned
    /\ "callout-tip" \in ClassList(out.html.class) /\ out.html.title = "Tip"

\* a section with its parent-grouping attribute blanked
WithoutParent(section) == [section EXCEPT !.parent = ""]

\* C14: in create_accordion allow_multiple shows only in the sections'
\* parent-grouping attribute: with allow_multiple = False every section's
\* data-bs-parent is '#' followed by the accordion id; with allow_multiple =
\* True no section carries a parent identifier (the attribute names none: it
\* is the bare '#'); everything else in the output is the same in both modes.
C14_AllowMultipleOnlyInParent ==
    (call.fn = "create_accordion" /\ out # Pending)
    => LET other == create_accordion(call.accordion_items, call.accordion_id,
                                     ~call.allow_multiple).html
       IN  /\ Returned
           /\ out.html.id = other.id
           /\ Len(out.html.sections) = Len(call.accordion_items)
           /\ Len(other.sections) = Len(call.accordion_items)
           /\ \A i \in 1..Len(call.accordion_items) :
                /\ out.html.sections[i].parent =
                      (IF call.allow_multiple THEN "#" ELSE "#" \o call.accordion_id)
                /\ WithoutParent(out.html.sections[i]) = WithoutParent(other.sections[i])

C14_Witness ==
    /\ call.fn = "create_accordion" /\ call.allow_multiple
    /\ Len(call.accordion_items) = 2 /\ Returned
    /\ out.html.sections[1].parent = "#" /\ out.html.sections[2].parent = "#"

====
